---------------------------- MODULE Spec2Model ----------------------------
(***************************************************************************)
(* A model of the linear-systems notebooks of dev_utils                    *)
(* (proto/num_analysis): the direct methods gauss_partial_pivoting,        *)
(* gauss_scaled_pivoting, doolittle, crout, choleski and                   *)
(* ldl_factorization, and the iterative methods jacobi and its             *)
(* unimplemented siblings.                                                 *)
(*                                                                         *)
(* Numbers.  The arrays are numpy float64 arrays.  A number is modelled    *)
(* as a pair <<p, q>>: a reduced fraction p/q with q > 0, or one of the    *)
(* IEEE special values, which numpy produces (with a RuntimeWarning, not   *)
(* an exception) when a float64 is divided by zero:                        *)
(*     <<1, 0>> = +inf     <<-1, 0>> = -inf     <<0, 0>> = nan.            *)
(* The elimination and factorization routines perform a bounded number of  *)
(* operations and are followed in exact arithmetic.  The iterates of       *)
(* jacobi have denominators that grow with every sweep, so every component *)
(* jacobi stores is rounded to Digits decimals (Fl).  The square roots of  *)
(* choleski are irrational in general, so every entry choleski stores is   *)
(* rounded to RootDigits decimals (Sqrt, RoundTo).  The sign of a zero     *)
(* is not tracked: dividing a nonzero number by zero gives the infinity    *)
(* with the sign of the numerator.                                         *)
(*                                                                         *)
(* Indices are 0-based, as in the source.                                  *)
(***************************************************************************)
EXTENDS Integers, Sequences, FiniteSets, TLC

(***************************************************************************)
(* Bounds of the model.                                                    *)
(***************************************************************************)
\* entries of the input matrices and vectors are the integers -MaxAbs..MaxAbs
MaxAbs == 2
\* the components jacobi stores keep Digits decimal digits after the point
Digits == 6
\* the entries choleski stores keep RootDigits decimal digits after the point
RootDigits == 3
\* the diagonal entries of the symmetric 3 x 3 inputs are the integers 0..MaxDiag
MaxDiag == 3

Prec == 10 ^ Digits

RootPrec == 10 ^ RootDigits

\* the significant decimal digits a result of the elimination keeps when the
\* rounding of the floating-point operations is modelled: half the decimal
\* places, so that the product of two results stays within TLC's integers
SigDigits == Digits \div 2

(***************************************************************************)
(* float64 arithmetic.                                                     *)
(***************************************************************************)
Abs(k) == IF k < 0 THEN -k ELSE k

Sgn(k) == IF k < 0 THEN -1 ELSE IF k > 0 THEN 1 ELSE 0

RECURSIVE GCD(_, _)
GCD(a, b) == IF b = 0 THEN a ELSE GCD(b, a % b)

\* the fraction p/q, q # 0, in lowest terms with a positive denominator
Norm(p, q) ==
    LET g == GCD(Abs(p), Abs(q))
        s == IF q < 0 THEN -1 ELSE 1
    IN  <<s * (p \div g), s * (q \div g)>>

NaN == <<0, 0>>

Inf(s) == <<s, 0>>

Zero == <<0, 1>>

One == <<1, 1>>

IsNaN(a) == a = NaN

IsInf(a) == a[2] = 0 /\ a[1] # 0

IsFinite(a) == a[2] > 0

IsZero(a) == a = Zero

\* the first k decimal digits of r/q, 0 <= r < q, as a pair <<digits, rest>>
RECURSIVE DecDigits(_, _, _)
DecDigits(r, q, k) ==
    IF k = 0 THEN <<0, r>>
    ELSE LET d == DecDigits(r, q, k - 1)
         IN  <<10 * d[1] + ((10 * d[2]) \div q), (10 * d[2]) % q>>

\* the value a float array keeps of a: the nearest multiple of 1/Prec
Fl(a) ==
    IF ~IsFinite(a) \/ Prec % a[2] = 0 THEN a
    ELSE LET m == Abs(a[1])
             d == DecDigits(m % a[2], a[2], Digits)
             u == (m \div a[2]) * Prec + d[1] + (IF 2 * d[2] >= a[2] THEN 1 ELSE 0)
         IN  Norm(Sgn(a[1]) * u, Prec)

\* the nearest multiple of 1/10^k to a
RoundTo(a, k) ==
    IF ~IsFinite(a) \/ (10 ^ k) % a[2] = 0 THEN a
    ELSE LET m == Abs(a[1])
             d == DecDigits(m % a[2], a[2], k)
             u == (m \div a[2]) * (10 ^ k) + d[1]
                      + (IF 2 * d[2] >= a[2] THEN 1 ELSE 0)
         IN  Norm(Sgn(a[1]) * u, 10 ^ k)

\* the integer part of m * 10^e / q, m >= 0
Lead(m, q, e) == (m \div q) * (10 ^ e) + DecDigits(m % q, q, e)[1]

\* the least e in from..max with m * 10^e / q >= lo, or max: the decimal
\* places that the leading digits of m/q reach down to
RECURSIVE PlacesFrom(_, _, _, _, _)
PlacesFrom(m, q, lo, from, max) ==
    IF from >= max \/ Lead(m, q, from) >= lo THEN from
    ELSE PlacesFrom(m, q, lo, from + 1, max)

\* the least d >= from with k / 10^d < hi
RECURSIVE ShiftFrom(_, _, _)
ShiftFrom(k, hi, from) ==
    IF k \div (10 ^ from) < hi THEN from ELSE ShiftFrom(k, hi, from + 1)

\* the nearest integer to m/q, halves upwards
Nearest(m, q) == (m \div q) + (IF 2 * (m % q) >= q THEN 1 ELSE 0)

\* what a floating-point operation delivers of its exact result a: the
\* nearest number with k significant decimal digits, and below the
\* magnitude where these digits end at the place of 1/Prec, the nearest
\* multiple of 1/Prec (gradual underflow)
FlSig(a, k) ==
    IF ~IsFinite(a) \/ IsZero(a) THEN a
    ELSE LET m == Abs(a[1])
             q == a[2]
         IN  IF m \div q < 10 ^ k
             THEN LET e == PlacesFrom(m, q, 10 ^ (k - 1), 0, Digits)
                      u == Lead(m, q, e)
                               + (IF 2 * DecDigits(m % q, q, e)[2] >= q
                                  THEN 1 ELSE 0)
                  IN  Norm(Sgn(a[1]) * u, 10 ^ e)
             ELSE LET d == ShiftFrom(m \div q, 10 ^ k, 1)
                  IN  Norm(Sgn(a[1]) * Nearest(m \div q, 10 ^ d) * (10 ^ d), 1)

\* the largest r with r * r <= k, searched in lo..hi-1
RECURSIVE ISqrtIn(_, _, _)
ISqrtIn(k, lo, hi) ==
    IF hi - lo <= 1 THEN lo
    ELSE LET mid == (lo + hi) \div 2
         IN  IF mid * mid <= k THEN ISqrtIn(k, mid, hi) ELSE ISqrtIn(k, lo, mid)

ISqrt(k) == ISqrtIn(k, 0, IF k < 46340 THEN k + 1 ELSE 46341)

\* np.sqrt on a float64: nan (with a RuntimeWarning) for a negative number,
\* otherwise the root, kept to RootDigits decimals
Sqrt(a) ==
    IF IsNaN(a) \/ a[1] < 0 THEN NaN
    ELSE IF IsInf(a) THEN a
    ELSE LET w == RoundTo(a, 2 * RootDigits)
             k == w[1] * ((RootPrec * RootPrec) \div w[2])
             r == ISqrt(k)
         IN  Norm(IF k > r * r + r THEN r + 1 ELSE r, RootPrec)

RNeg(a) == <<-a[1], a[2]>>

RAbs(a) == <<Abs(a[1]), a[2]>>

RAdd(a, b) ==
    IF IsNaN(a) \/ IsNaN(b) THEN NaN
    ELSE IF IsInf(a) /\ IsInf(b) THEN (IF a = b THEN a ELSE NaN)
    ELSE IF IsInf(a) THEN a
    ELSE IF IsInf(b) THEN b
    ELSE LET g == GCD(a[2], b[2])
         IN  Norm(a[1] * (b[2] \div g) + b[1] * (a[2] \div g),
                  (a[2] \div g) * b[2])

RSub(a, b) == RAdd(a, RNeg(b))

RMul(a, b) ==
    IF IsNaN(a) \/ IsNaN(b) THEN NaN
    ELSE IF IsInf(a) \/ IsInf(b)
         THEN (IF IsZero(a) \/ IsZero(b) THEN NaN
               ELSE Inf(Sgn(a[1]) * Sgn(b[1])))
    ELSE LET g1 == GCD(Abs(a[1]), b[2])
             g2 == GCD(Abs(b[1]), a[2])
         IN  Norm((a[1] \div g1) * (b[1] \div g2),
                  (a[2] \div g2) * (b[2] \div g1))

RDiv(a, b) ==
    IF IsNaN(a) \/ IsNaN(b) THEN NaN
    ELSE IF IsInf(a) THEN (IF IsInf(b) THEN NaN
                           ELSE Inf(a[1] * (IF b[1] < 0 THEN -1 ELSE 1)))
    ELSE IF IsInf(b) THEN Zero
    ELSE IF IsZero(b) THEN (IF IsZero(a) THEN NaN ELSE Inf(Sgn(a[1])))
    ELSE RMul(a, Norm(b[2], b[1]))

\* a > b as float64 compares: false as soon as one side is nan
RGt(a, b) == ~IsNaN(a) /\ ~IsNaN(b) /\ a[1] * b[2] > b[1] * a[2]

RGe(a, b) == ~IsNaN(a) /\ ~IsNaN(b) /\ a[1] * b[2] >= b[1] * a[2]

(***************************************************************************)
(* State.                                                                  *)
(*   fn               the function the caller invoked                      *)
(*   pc               the position inside it                               *)
(*   n                len(matrix)                                          *)
(*   matrix, vector   the caller's array objects (the functions work on    *)
(*                    the objects they are passed, there is no copy)       *)
(*   matrix0, vector0 their values when the call was made (never written)  *)
(*   i, max_row       the loop index and the pivot row of the source       *)
(*   x                the solution vector under construction               *)
(*   L                the result matrix of doolittle and of choleski       *)
(*   x0, tol, maxiter jacobi's parameters (x0 is rebound by the loop)      *)
(*   x0arg            the caller's x0 object                               *)
(*   ret              what the call returned; kind "running" until then    *)
(*   perm             perm[k]: the input row that now sits at position k   *)
(*   zpiv             a pivot search found nothing but zeros in its column *)
(*   zdiv             a division by a divisor equal to zero was executed   *)
(*   negroot          the square root of a negative number was taken       *)
(*   inexact          a square root or a quotient choleski stored was      *)
(*                    rounded                                              *)
(*   count            count[s]: how many steps of kind s the call has made *)
(*   w                the argument w of successive_over_relaxation         *)
(*   arith            the arithmetic of gauss_partial_pivoting: "float",   *)
(*                    every operation rounds its result, or "exact", the   *)
(*                    arithmetic of the reals                              *)
(*   iterates         the values x had at the end of each pass the call    *)
(*                    has made                                             *)
(*   calls            how many calls the caller has made with its arrays   *)
(*   first            once the caller calls again: the arguments and the   *)
(*                    outcome of its first call                            *)
(***************************************************************************)
VARIABLES fn, pc, n, matrix, vector, matrix0, vector0, i, max_row, x, L,
          x0, x0arg, tol, maxiter, ret, perm, zpiv, zdiv, negroot, inexact,
          count, w, arith, iterates, calls, first

vars == <<fn, pc, n, matrix, vector, matrix0, vector0, i, max_row, x, L,
          x0, x0arg, tol, maxiter, ret, perm, zpiv, zdiv, negroot, inexact,
          count, w, arith, iterates, calls, first>>

Idx(m) == 0 .. (m - 1)

FromInt(k) == <<k, 1>>

\* np.zeros(n)
Zeros(m) == [k \in Idx(m) |-> Zero]

\* np.zeros((n, n))
ZerosMat(m) == [r \in Idx(m) |-> Zeros(m)]

\* the m-vectors and m x m matrices with integer entries taken from S
VecOver(m, S) == [Idx(m) -> {FromInt(k) : k \in S}]

MatOver(m, S) == [Idx(m) -> VecOver(m, S)]

Running == [kind |-> "running"]

NoArray == <<>>

\* the kinds of steps that are counted, none made yet
NoSteps == [s \in {"pivot", "back", "sweep"} |-> 0]

Counted(s) == [count EXCEPT ![s] = @ + 1]

\* what an operation of the elimination delivers of its exact result a
Rnd(a) == IF arith = "float" THEN FlSig(a, SigDigits) ELSE a

(***************************************************************************)
(* gauss_partial_pivoting                                                  *)
(***************************************************************************)
\* the inner loop of lines 721-724: j runs from its start up to m-1 and
\* replaces cur only on a strictly greater magnitude
RECURSIVE MaxRowFrom(_, _, _, _, _)
MaxRowFrom(M, m, c, j, cur) ==
    IF j >= m THEN cur
    ELSE MaxRowFrom(M, m, c, j + 1,
                    IF RGt(RAbs(M[j][c]), RAbs(M[cur][c])) THEN j ELSE cur)

FindMaxRow(M, m, c) == MaxRowFrom(M, m, c, c + 1, c)

\* a variant of Swap that assigns one index after the other, a[r] = a[s] and
\* then a[s] = a[r], and so loses the old a[r]
SwapInTurn(a, r, s) == [a EXCEPT ![r] = a[s]]

\* a[[r, s]] = a[[s, r]]: numpy builds the right-hand side first
Swap(a, r, s) == [a EXCEPT ![r] = a[s], ![s] = a[r]]

\* a variant of Factor with the quotient upside down: matrix[i][i] / matrix[j][i]
FactorInverted(M, c, j) == Rnd(RDiv(M[c][c], M[j][c]))

\* f = matrix[j][i] / matrix[i][i]
Factor(M, c, j) == Rnd(RDiv(M[j][c], M[c][c]))

\* a variant of ElimRow that forgets the factor: matrix[j] - matrix[i]
ElimRowUnscaled(M, m, c, j) ==
    [k \in DOMAIN M[j] |-> Rnd(RSub(M[j][k], M[c][k]))]

\* matrix[j] = matrix[j] - f * matrix[i]
ElimRow(M, m, c, j) ==
    [k \in DOMAIN M[j] |->
        Rnd(RSub(M[j][k], Rnd(RMul(Factor(M, c, j), M[c][k]))))]

\* a variant of ElimEntry that forgets the factor: vector[j] - vector[i]
ElimEntryUnscaled(M, v, c, j) == Rnd(RSub(v[j], v[c]))

\* vector[j] = vector[j] - f * vector[i]
ElimEntry(M, v, c, j) == Rnd(RSub(v[j], Rnd(RMul(Factor(M, c, j), v[c]))))

\* the loop of lines 729-732; row i is not written, so the rows are independent
ElimMatrix(M, m, c) ==
    [j \in Idx(m) |-> IF j > c THEN ElimRow(M, m, c, j) ELSE M[j]]

\* entries m and later, if the vector has any, are not written
ElimVector(M, v, m, c) ==
    [j \in DOMAIN v |-> IF j > c /\ j < m THEN ElimEntry(M, v, c, j) ELSE v[j]]

\* np.dot(row[k:], y[k:]), accumulated from the left
RECURSIVE DotFrom(_, _, _, _)
DotFrom(row, y, m, k) ==
    IF k >= m THEN Zero
    ELSE Rnd(RAdd(Rnd(RMul(row[k], y[k])), DotFrom(row, y, m, k + 1)))

\* x[i] = (vector[i] - np.dot(matrix[i][i + 1:], x[i + 1:])) / matrix[i][i]
BackValue(M, v, y, m, r) ==
    Rnd(RDiv(Rnd(RSub(v[r], DotFrom(M[r], y, m, r + 1))), M[r][r]))

\* lines 721-727: the pivot search of column i and the swap
GaussPivot ==
    /\ pc = "pivot"
    /\ i < n
    /\ LET r == FindMaxRow(matrix, n, i)
       IN  /\ max_row' = r
           /\ matrix' = Swap(matrix, i, r)
           /\ vector' = Swap(vector, i, r)
           /\ perm' = Swap(perm, i, r)
           /\ zpiv' = (zpiv \/ IsZero(matrix[r][i]))
    /\ pc' = "elim"
    /\ count' = Counted("pivot")
    /\ UNCHANGED <<w, arith, iterates, calls, first>>
    /\ UNCHANGED <<fn, n, matrix0, vector0, i, x, L, x0, x0arg, tol, maxiter,
                   ret, zdiv, negroot, inexact>>

\* lines 729-732: the elimination below the pivot, then the next column;
\* after the last column, line 734
GaussEliminate ==
    /\ pc = "elim"
    /\ matrix' = ElimMatrix(matrix, n, i)
    /\ vector' = ElimVector(matrix, vector, n, i)
    /\ zdiv' = (zdiv \/ (i + 1 < n /\ IsZero(matrix[i][i])))
    /\ IF i + 1 < n
       THEN /\ i' = i + 1
            /\ pc' = "pivot"
            /\ x' = x
       ELSE /\ i' = n - 1
            /\ pc' = "back"
            /\ x' = Zeros(n)
    /\ UNCHANGED <<w, arith, iterates, calls, first>>
    /\ UNCHANGED <<fn, n, matrix0, vector0, max_row, L, x0, x0arg, tol,
                   maxiter, ret, perm, zpiv, negroot, inexact, count>>

\* lines 735-736: one step of the back substitution
GaussBackSubstitute ==
    /\ pc = "back"
    /\ i >= 0
    /\ x' = [x EXCEPT ![i] = BackValue(matrix, vector, x, n, i)]
    /\ zdiv' = (zdiv \/ IsZero(matrix[i][i]))
    /\ i' = i - 1
    /\ count' = Counted("back")
    /\ UNCHANGED <<w, arith, iterates, calls, first>>
    /\ UNCHANGED <<fn, pc, n, matrix, vector, matrix0, vector0, max_row, L,
                   x0, x0arg, tol, maxiter, ret, perm, zpiv,
                   negroot, inexact>>

\* line 737
GaussReturn ==
    /\ pc = "back"
    /\ i < 0
    /\ ret' = [kind |-> "ndarray", val |-> x]
    /\ pc' = "done"
    /\ UNCHANGED <<w, arith, iterates, calls, first>>
    /\ UNCHANGED <<fn, n, matrix, vector, matrix0, vector0, i, max_row, x, L,
                   x0, x0arg, tol, maxiter, perm, zpiv, zdiv,
                   negroot, inexact, count>>

(***************************************************************************)
(* gauss_scaled_pivoting                                                   *)
(***************************************************************************)
\* line 767: the call is handed to gauss_partial_pivoting with the same objects
GaussScaledDelegate ==
    /\ fn = "gauss_scaled_pivoting"
    /\ pc = "call"
    /\ pc' = "pivot"
    /\ UNCHANGED <<w, arith, iterates, calls, first>>
    /\ UNCHANGED <<fn, n, matrix, vector, matrix0, vector0, i, max_row, x, L,
                   x0, x0arg, tol, maxiter, ret, perm, zpiv, zdiv,
                   negroot, inexact, count>>

(***************************************************************************)
(* doolittle                                                               *)
(***************************************************************************)
\* a variant of ArgAfter for a factorization done in place: the argument
\* holds the factor
ArgOverwritten(M, l) == l

\* the argument array after a pass of a factorizer over l: the assignments
\* of lines 572, 575 and 609 have L as their target, the array the parameter
\* names is only read
ArgAfter(M, l) == M

\* sum(L[a][k] * L[b][k] for k in range(m)): Python's sum adds from the left
RECURSIVE PairSum(_, _, _, _)
PairSum(l, a, b, m) ==
    IF m = 0 THEN Zero
    ELSE RAdd(PairSum(l, a, b, m - 1), RMul(l[a][m - 1], l[b][m - 1]))

\* lines 570-572 for j = from..r: L[r][j] = matrix[r][j] - s1
RECURSIVE RowPassFrom(_, _, _, _)
RowPassFrom(l, M, r, from) ==
    IF from > r THEN l
    ELSE RowPassFrom(
             [l EXCEPT ![r][from] = RSub(M[r][from], PairSum(l, r, from, from))],
             M, r, from + 1)

RowPass(l, M, r) == RowPassFrom(l, M, r, 0)

\* a variant of ColPassStart that leaves the diagonal out: range(i + 1, n)
ColPassStartBelow(c) == c + 1

\* the first j of the loop of line 573: range(i, n)
ColPassStart(c) == c

\* lines 573-575 for j = from..m-1: L[j][c] = (matrix[j][c] - s2) / L[c][c]
RECURSIVE ColPassFrom(_, _, _, _, _)
ColPassFrom(l, M, m, c, from) ==
    IF from >= m THEN l
    ELSE ColPassFrom(
             [l EXCEPT ![from][c] =
                 RDiv(RSub(M[from][c], PairSum(l, c, from, c)), l[c][c])],
             M, m, c, from + 1)

ColPass(l, M, m, c) == ColPassFrom(l, M, m, c, ColPassStart(c))

\* M.T
Transpose(M) == [r \in DOMAIN M |-> [c \in DOMAIN M |-> M[c][r]]]

\* the array that doolittle's parameter names: the caller's array, or the
\* view matrix.T of it that crout passes
Param == IF fn = "crout" THEN Transpose(matrix) ELSE matrix

\* lines 567-568
DoolittleEnter ==
    /\ \/ fn = "doolittle" /\ pc = "call"
       \/ fn = "crout" /\ pc = "delegated"
    /\ L' = ZerosMat(n)
    /\ i' = 0
    /\ pc' = "row"
    /\ UNCHANGED <<w, arith, iterates, calls, first>>
    /\ UNCHANGED <<fn, n, matrix, vector, matrix0, vector0, max_row, x, x0,
                   x0arg, tol, maxiter, ret, perm, zpiv, zdiv,
                   negroot, inexact, count>>

\* lines 570-572: the first inner loop of row i
DoolittleRowPass ==
    /\ pc = "row"
    /\ i < n
    /\ L' = RowPass(L, Param, i)
    /\ zpiv' = (zpiv \/ IsZero(L'[i][i]))
    /\ pc' = "col"
    /\ matrix' = ArgAfter(matrix, L')
    /\ UNCHANGED <<w, arith, iterates, calls, first>>
    /\ UNCHANGED <<fn, n, vector, matrix0, vector0, i, max_row, x, x0,
                   x0arg, tol, maxiter, ret, perm, zdiv,
                   negroot, inexact, count>>

\* lines 573-575: the second inner loop of row i, then the next row
DoolittleColPass ==
    /\ pc = "col"
    /\ L' = ColPass(L, Param, n, i)
    /\ zdiv' = (zdiv \/ IsZero(L[i][i]))
    /\ i' = i + 1
    /\ pc' = "row"
    /\ matrix' = ArgAfter(matrix, L')
    /\ UNCHANGED <<w, arith, iterates, calls, first>>
    /\ UNCHANGED <<fn, n, vector, matrix0, vector0, max_row, x, x0,
                   x0arg, tol, maxiter, ret, perm, zpiv,
                   negroot, inexact, count>>

\* line 576
DoolittleReturn ==
    /\ pc = "row"
    /\ i >= n
    /\ ret' = [kind |-> "ndarray", val |-> L]
    /\ pc' = IF fn = "crout" THEN "returned" ELSE "done"
    /\ UNCHANGED <<w, arith, iterates, calls, first>>
    /\ UNCHANGED <<fn, n, matrix, vector, matrix0, vector0, i, max_row, x, L,
                   x0, x0arg, tol, maxiter, perm, zpiv, zdiv,
                   negroot, inexact, count>>

(***************************************************************************)
(* crout                                                                   *)
(***************************************************************************)
\* line 638, the call: doolittle(matrix.T)
CroutDelegate ==
    /\ fn = "crout"
    /\ pc = "call"
    /\ pc' = "delegated"
    /\ UNCHANGED <<w, arith, iterates, calls, first>>
    /\ UNCHANGED <<fn, n, matrix, vector, matrix0, vector0, i, max_row, x, L,
                   x0, x0arg, tol, maxiter, ret, perm, zpiv, zdiv,
                   negroot, inexact, count>>

\* line 638, the return: the transpose of what doolittle returned
CroutReturn ==
    /\ fn = "crout"
    /\ pc = "returned"
    /\ ret' = [kind |-> "ndarray", val |-> Transpose(ret.val)]
    /\ pc' = "done"
    /\ UNCHANGED <<w, arith, iterates, calls, first>>
    /\ UNCHANGED <<fn, n, matrix, vector, matrix0, vector0, i, max_row, x, L,
                   x0, x0arg, tol, maxiter, perm, zpiv, zdiv,
                   negroot, inexact, count>>

(***************************************************************************)
(* choleski and ldl_factorization                                          *)
(***************************************************************************)
\* a variant of CholQuotient without the division: matrix[i][j] - s1
CholUndivided(l, M, r, j) == RSub(M[r][j], PairSum(l, r, j, j))

\* line 609, j < i: (matrix[i][j] - s1) / L[j][j]
CholQuotient(l, M, r, j) ==
    RDiv(RSub(M[r][j], PairSum(l, r, j, j)), l[j][j])

\* line 609, j = i: the number whose root is taken, matrix[i][i] - s1
CholRadicand(l, M, r) == RSub(M[r][r], PairSum(l, r, r, r))

\* line 609: the value L[r][j] receives
CholEntry(l, M, r, j) ==
    IF r = j THEN Sqrt(CholRadicand(l, M, r))
    ELSE RoundTo(CholQuotient(l, M, r, j), RootDigits)

\* lines 607-609 for j = from..r
RECURSIVE CholRowFrom(_, _, _, _)
CholRowFrom(l, M, r, from) ==
    IF from > r THEN l
    ELSE CholRowFrom([l EXCEPT ![r][from] = CholEntry(l, M, r, from)],
                     M, r, from + 1)

CholRow(l, M, r) == CholRowFrom(l, M, r, 0)

\* row r of l, as CholRow left it, holds a value that is not the exact one:
\* the entries of the row to the left of an entry are those it was computed from
CholRounded(l, M, r) ==
    \/ \E j \in 0 .. (r - 1) : l[r][j] # CholQuotient(l, M, r, j)
    \/ /\ IsFinite(l[r][r])
       /\ RMul(l[r][r], l[r][r]) # CholRadicand(l, M, r)

\* line 816: the call is handed to choleski with the same object
LdlDelegate ==
    /\ fn = "ldl_factorization"
    /\ pc = "call"
    /\ pc' = "delegated"
    /\ UNCHANGED <<w, arith, iterates, calls, first>>
    /\ UNCHANGED <<fn, n, matrix, vector, matrix0, vector0, i, max_row, x, L,
                   x0, x0arg, tol, maxiter, ret, perm, zpiv, zdiv,
                   negroot, inexact, count>>

\* lines 604-605
CholeskiEnter ==
    /\ \/ fn = "choleski" /\ pc = "call"
       \/ fn = "ldl_factorization" /\ pc = "delegated"
    /\ L' = ZerosMat(n)
    /\ i' = 0
    /\ pc' = "chrow"
    /\ UNCHANGED <<w, arith, iterates, calls, first>>
    /\ UNCHANGED <<fn, n, matrix, vector, matrix0, vector0, max_row, x, x0,
                   x0arg, tol, maxiter, ret, perm, zpiv, zdiv,
                   negroot, inexact, count>>

\* lines 607-609: row i of L, then the next row
CholeskiRow ==
    /\ pc = "chrow"
    /\ i < n
    /\ L' = CholRow(L, matrix, i)
    /\ negroot' = (negroot \/ CholRadicand(L', matrix, i)[1] < 0)
    /\ zdiv' = (zdiv \/ \E j \in 0 .. (i - 1) : IsZero(L[j][j]))
    /\ inexact' = (inexact \/ CholRounded(L', matrix, i))
    /\ i' = i + 1
    /\ matrix' = ArgAfter(matrix, L')
    /\ UNCHANGED <<w, arith, iterates, calls, first>>
    /\ UNCHANGED <<fn, pc, n, vector, matrix0, vector0, max_row, x,
                   x0, x0arg, tol, maxiter, ret, perm, zpiv, count>>

\* line 610
CholeskiReturn ==
    /\ pc = "chrow"
    /\ i >= n
    /\ ret' = [kind |-> "ndarray", val |-> L]
    /\ pc' = "done"
    /\ UNCHANGED <<w, arith, iterates, calls, first>>
    /\ UNCHANGED <<fn, n, matrix, vector, matrix0, vector0, i, max_row, x, L,
                   x0, x0arg, tol, maxiter, perm, zpiv, zdiv,
                   negroot, inexact, count>>

(***************************************************************************)
(* jacobi                                                                  *)
(***************************************************************************)
\* the rtol that np.allclose uses when the call passes none is 1 / RtolInv
RtolInv == 100000

\* |a - b| <= atol + rtol * |b|, the test of np.isclose on one component;
\* an infinity is close to itself only, nan to nothing.  The three terms
\* are brought to the common denominator q, where the test reads
\* (p - t) * RtolInv <= |b|.
IsClose(a, b, atol) ==
    IF IsNaN(a) \/ IsNaN(b) THEN FALSE
    ELSE IF IsInf(a) \/ IsInf(b) THEN a = b
    ELSE LET d == RAbs(RSub(a, b))
             g == GCD(d[2], atol[2])
             l == (d[2] \div g) * atol[2]
             h == GCD(l, b[2])
             q == (l \div h) * b[2]
             p == d[1] * (q \div d[2])
             t == atol[1] * (q \div atol[2])
             c == Abs(b[1]) * (q \div b[2])
         IN  p - t <= c \div RtolInv

\* np.allclose(y, z, atol=tol)
AllClose(y, z, m, atol) == \A k \in Idx(m) : IsClose(y[k], z[k], atol)

\* lines 59-61 for one j: s = np.dot(A[j,:], x); s -= A[j,j] * x[j];
\* x[j] = (b[j] - s) / A[j,j]
Component(A, b, y, m, j) ==
    LET s == RSub(DotFrom(A[j], y, m, 0), RMul(A[j][j], y[j]))
    IN  Fl(RDiv(RSub(b[j], s), A[j][j]))

\* the loop of line 58 for j = from..m-1, on the one array x
RECURSIVE SweepFrom(_, _, _, _, _)
SweepFrom(A, b, y, m, from) ==
    IF from >= m THEN y
    ELSE SweepFrom(A, b, [y EXCEPT ![from] = Component(A, b, y, m, from)],
                   m, from + 1)

Sweep(A, b, y, m) == SweepFrom(A, b, y, m, 0)

\* a variant of MorePasses for a loop that runs once more: range(maxiter + 1)
MorePassesInclusive(k, mi) == k <= mi

\* line 57, for i in range(maxiter): after k passes there is another one
MorePasses(k, mi) == k < mi

\* a variant of CallerX0After for x0[:] = x, which writes into the array the
\* caller passed
CallerX0Written(g, y) == y

\* line 64, x0 = x.copy(): the name x0 is bound to a new array, the array g
\* the caller passed stays as it is
CallerX0After(g, y) == g

\* a variant of StartVector that starts the iteration at the initial guess:
\* x = x0.copy()
StartFromGuess(g, m) == g

\* line 56, x = np.zeros_like(b): the iteration starts at the zero vector,
\* whatever the initial guess g is
StartVector(g, m) == Zeros(m)

\* lines 52-56; with maxiter = 0 the loop of line 57 has no pass
JacobiEnter ==
    /\ fn = "jacobi"
    /\ pc = "call"
    /\ x' = StartVector(x0, n)
    /\ i' = 0
    /\ pc' = IF MorePasses(0, maxiter) THEN "sweep" ELSE "exhausted"
    /\ UNCHANGED <<w, arith, iterates, calls, first>>
    /\ UNCHANGED <<fn, n, matrix, vector, matrix0, vector0, max_row, L, x0,
                   x0arg, tol, maxiter, ret, perm, zpiv, zdiv,
                   negroot, inexact, count>>

\* lines 58-64: one pass of the loop of line 57; i counts the passes that
\* ended without break
JacobiSweep ==
    /\ pc = "sweep"
    /\ x' = Sweep(matrix, vector, x, n)
    /\ zdiv' = (zdiv \/ \E j \in Idx(n) : IsZero(matrix[j][j]))
    /\ IF AllClose(x', x0, n, tol)
       THEN /\ pc' = "break"
            /\ UNCHANGED <<i, x0>>
       ELSE /\ x0' = x'
            /\ i' = i + 1
            /\ pc' = IF MorePasses(i + 1, maxiter) THEN "sweep" ELSE "exhausted"
    /\ x0arg' = IF AllClose(x', x0, n, tol) THEN x0arg
                ELSE CallerX0After(x0arg, x')
    /\ count' = Counted("sweep")
    /\ iterates' = Append(iterates, x')
    /\ UNCHANGED <<w, arith, calls, first>>
    /\ UNCHANGED <<fn, n, matrix, vector, matrix0, vector0, max_row, L,
                   tol, maxiter, ret, perm, zpiv, negroot, inexact>>

\* line 65
JacobiReturn ==
    /\ pc \in {"break", "exhausted"}
    /\ ret' = [kind |-> "ndarray", val |-> x]
    /\ pc' = "done"
    /\ UNCHANGED <<w, arith, iterates, calls, first>>
    /\ UNCHANGED <<fn, n, matrix, vector, matrix0, vector0, i, max_row, x, L,
                   x0, x0arg, tol, maxiter, perm, zpiv, zdiv,
                   negroot, inexact, count>>

(***************************************************************************)
(* gauss_seidel, successive_over_relaxation, iterative_refinement and      *)
(* conjugate_gradient                                                      *)
(***************************************************************************)
Placeholders ==
    {"gauss_seidel", "successive_over_relaxation", "iterative_refinement",
     "conjugate_gradient"}

\* a variant of PlaceholderReturn for a body that hands the initial guess
\* back: return x0
PlaceholderEcho ==
    /\ fn \in Placeholders
    /\ pc = "call"
    /\ ret' = [kind |-> "ndarray", val |-> x0]
    /\ pc' = "done"
    /\ UNCHANGED <<w, arith, iterates, calls, first>>
    /\ UNCHANGED <<fn, n, matrix, vector, matrix0, vector0, i, max_row, x, L,
                   x0, x0arg, tol, maxiter, perm, zpiv, zdiv,
                   negroot, inexact, count>>

\* return None
PlaceholderReturn ==
    /\ fn \in Placeholders
    /\ pc = "call"
    /\ ret' = [kind |-> "None"]
    /\ pc' = "done"
    /\ UNCHANGED <<w, arith, iterates, calls, first>>
    /\ UNCHANGED <<fn, n, matrix, vector, matrix0, vector0, i, max_row, x, L,
                   x0, x0arg, tol, maxiter, perm, zpiv, zdiv,
                   negroot, inexact, count>>

(***************************************************************************)
(* The elimination solvers on every small system.                          *)
(***************************************************************************)
\* the entries of the 3 x 3 matrices and of the right-hand sides of 2 x 2 systems
Small == {-1, 0, 1}

\* the right-hand side of the 3 x 3 systems
Rhs3 == {[k \in Idx(3) |-> FromInt(k + 1)]}

GaussInputs ==
    {<<2, M, v>> : M \in MatOver(2, -MaxAbs .. MaxAbs), v \in VecOver(2, Small)}
    \cup {<<3, M, v>> : M \in MatOver(3, Small), v \in Rhs3}

\* where a call of f starts: gauss_partial_pivoting at its first pivot
\* search, the others at their first line
Entry(f) == IF f = "gauss_partial_pivoting" THEN "pivot" ELSE "call"

\* the value of a parameter the function called does not have
NoParam == <<>>

\* the state in which fn(M, v, ...) has just been called, the first call the
\* caller makes; omega is the argument w, ar the arithmetic
CalledIn(ar, f, m, M, v, g, omega, t, mi) ==
    /\ fn = f
    /\ pc = Entry(f)
    /\ n = m
    /\ matrix = M /\ matrix0 = M
    /\ vector = v /\ vector0 = v
    /\ i = 0
    /\ max_row = 0
    /\ x = NoArray
    /\ L = NoArray
    /\ x0 = g /\ x0arg = g
    /\ tol = t
    /\ maxiter = mi
    /\ ret = Running
    /\ perm = [k \in Idx(m) |-> k]
    /\ zpiv = FALSE
    /\ zdiv = FALSE
    /\ negroot = FALSE
    /\ inexact = FALSE
    /\ count = NoSteps
    /\ w = omega
    /\ arith = ar
    /\ iterates = <<>>
    /\ calls = 1
    /\ first = Running

CalledWith(f, m, M, v, g, omega, t, mi) ==
    CalledIn("exact", f, m, M, v, g, omega, t, mi)

Called(f, m, M, v, g, t, mi) == CalledWith(f, m, M, v, g, NoParam, t, mi)

InitGauss ==
    \E f \in {"gauss_partial_pivoting", "gauss_scaled_pivoting"} :
        \E inp \in GaussInputs :
            Called(f, inp[1], inp[2], inp[3], NoArray, Zero, 0)

NextGauss ==
    \/ GaussScaledDelegate
    \/ GaussPivot
    \/ GaussEliminate
    \/ GaussBackSubstitute
    \/ GaussReturn

SpecGauss == InitGauss /\ [][NextGauss]_vars

(***************************************************************************)
(* The factorizer on every small matrix.                                   *)
(***************************************************************************)
LUInputs ==
    {<<2, M>> : M \in MatOver(2, -MaxAbs .. MaxAbs)}
    \cup {<<3, M>> : M \in MatOver(3, Small)}

InitLU ==
    \E inp \in LUInputs :
        Called("doolittle", inp[1], inp[2], NoArray, NoArray, Zero, 0)

NextLU ==
    \/ DoolittleEnter
    \/ DoolittleRowPass
    \/ DoolittleColPass
    \/ DoolittleReturn

SpecLU == InitLU /\ [][NextLU]_vars

(***************************************************************************)
(* The four factorizers on every small matrix.                             *)
(***************************************************************************)
Factorizers == {"doolittle", "choleski", "crout", "ldl_factorization"}

\* the symmetric 3 x 3 matrices with a diagonal from 0..MaxDiag and the other
\* entries from Small
SymInputs ==
    {<<3, [r \in Idx(3) |->
              [c \in Idx(3) |->
                  FromInt(IF r = c THEN d[r] ELSE o[r + c - 1])]]>> :
        d \in [Idx(3) -> 0 .. MaxDiag], o \in [Idx(3) -> Small]}

InitFactor ==
    \/ \E f \in Factorizers :
           \E inp \in LUInputs :
               Called(f, inp[1], inp[2], NoArray, NoArray, Zero, 0)
    \/ \E f \in {"choleski", "ldl_factorization"} :
           \E inp \in SymInputs :
               Called(f, inp[1], inp[2], NoArray, NoArray, Zero, 0)

NextFactor ==
    \/ DoolittleEnter
    \/ DoolittleRowPass
    \/ DoolittleColPass
    \/ DoolittleReturn
    \/ CroutDelegate
    \/ CroutReturn
    \/ LdlDelegate
    \/ CholeskiEnter
    \/ CholeskiRow
    \/ CholeskiReturn

SpecFactor == InitFactor /\ [][NextFactor]_vars

(***************************************************************************)
(* The solvers on the two systems the specification names.                 *)
(***************************************************************************)
\* the default of jacobi's maxiter
DefaultMaxIter == 100

\* the default of jacobi's tol, 1e-5
DefaultTol == <<1, 100000>>

IntMat(rows) == [r \in Idx(Len(rows)) |->
                    [c \in Idx(Len(rows)) |-> FromInt(rows[r + 1][c + 1])]]

IntVec(row) == [k \in Idx(Len(row)) |-> FromInt(row[k + 1])]

TridiagA == IntMat(<<<<4, -1, 0>>, <<-1, 4, -1>>, <<0, -1, 4>>>>)

TridiagB == IntVec(<<15, 10, 10>>)

\* the tolerance of that scenario, 1e-6
TridiagTol == <<1, 1000000>>

SingularA == IntMat(<<<<1, 2>>, <<2, 4>>>>)

SingularB == IntVec(<<1, 2>>)

\* the calls <<fn, n, A, b, x0, tol, maxiter>> of the two scenarios; the
\* scenarios leave x0 open
ScenarioCalls ==
    {<<"gauss_partial_pivoting", 3, TridiagA, TridiagB, NoArray, Zero, 0>>,
     <<"gauss_partial_pivoting", 2, SingularA, SingularB, NoArray, Zero, 0>>,
     <<"gauss_scaled_pivoting", 2, SingularA, SingularB, NoArray, Zero, 0>>}
    \cup {<<"jacobi", 3, TridiagA, TridiagB, g, TridiagTol, DefaultMaxIter>> :
              g \in VecOver(3, Small)}
    \cup {<<"conjugate_gradient", 3, TridiagA, TridiagB, g, TridiagTol, DefaultMaxIter>> :
              g \in VecOver(3, Small)}
    \cup {<<"gauss_seidel", 3, TridiagA, TridiagB, g, TridiagTol, DefaultMaxIter>> :
              g \in VecOver(3, Small)}
    \cup {<<"jacobi", 2, SingularA, SingularB, g, DefaultTol, DefaultMaxIter>> :
              g \in VecOver(2, Small)}

InitScenario ==
    \E c \in ScenarioCalls : Called(c[1], c[2], c[3], c[4], c[5], c[6], c[7])

NextScenario ==
    \/ GaussScaledDelegate
    \/ GaussPivot
    \/ GaussEliminate
    \/ GaussBackSubstitute
    \/ GaussReturn
    \/ JacobiEnter
    \/ JacobiSweep
    \/ JacobiReturn
    \/ PlaceholderReturn

SpecScenario == InitScenario /\ [][NextScenario]_vars

(***************************************************************************)
(* jacobi, gauss_seidel and gauss_partial_pivoting on every small 2 x 2    *)
(* system, jacobi with every small budget of passes.                       *)
(***************************************************************************)
\* the largest maxiter of these calls
MaxSweeps == 3

Bits == {0, 1}

SolveInputs ==
    {<<M, v>> : M \in MatOver(2, -MaxAbs .. MaxAbs), v \in VecOver(2, Bits)}

InitSolve ==
    \E inp \in SolveInputs :
        \/ \E g \in VecOver(2, Bits) : \E mi \in 0 .. MaxSweeps :
               Called("jacobi", 2, inp[1], inp[2], g, DefaultTol, mi)
        \/ Called("gauss_seidel", 2, inp[1], inp[2], Zeros(2), DefaultTol,
                  MaxSweeps)
        \/ Called("gauss_partial_pivoting", 2, inp[1], inp[2], NoArray, Zero, 0)

NextSolve ==
    \/ JacobiEnter
    \/ JacobiSweep
    \/ JacobiReturn
    \/ PlaceholderReturn
    \/ GaussPivot
    \/ GaussEliminate
    \/ GaussBackSubstitute
    \/ GaussReturn

SpecSolve == InitSolve /\ [][NextSolve]_vars

\* the same calls on the systems with entries from Small and on one system
\* on which the iteration diverges
DivergingA == IntMat(<<<<1, 2>>, <<2, 1>>>>)

FairInputs ==
    {<<M, IntVec(<<1, 1>>)>> : M \in MatOver(2, Small) \cup {DivergingA}}

InitFair ==
    \E inp \in FairInputs :
        \/ \E mi \in 0 .. MaxSweeps :
               Called("jacobi", 2, inp[1], inp[2], Zeros(2), DefaultTol, mi)
        \/ Called("gauss_seidel", 2, inp[1], inp[2], Zeros(2), DefaultTol,
                  MaxSweeps)
        \/ Called("gauss_partial_pivoting", 2, inp[1], inp[2], NoArray, Zero, 0)

\* A call is not suspended: the interpreter runs every step that is
\* possible, which is weak fairness of each action.  For the three steps
\* that compute with the arrays, WF_vars(A) is written out as
\* []<>~ENABLED <<A>>_vars \/ []<><<A>>_vars with ENABLED replaced by the
\* guard of A: each of them changes pc, i or count whenever its guard holds.
FairSolve ==
    /\ InitFair /\ [][NextSolve]_vars
    /\ WF_vars(JacobiEnter)
    /\ WF_vars(JacobiReturn)
    /\ WF_vars(PlaceholderReturn)
    /\ WF_vars(GaussPivot)
    /\ WF_vars(GaussReturn)
    /\ []<>(pc # "sweep") \/ []<><<JacobiSweep>>_vars
    /\ []<>(pc # "elim") \/ []<><<GaussEliminate>>_vars
    /\ []<>(~(pc = "back" /\ i >= 0)) \/ []<><<GaussBackSubstitute>>_vars

(***************************************************************************)
(* A caller that calls twice: gauss_partial_pivoting on every small        *)
(* system and jacobi on the small 2 x 2 systems, then the same function    *)
(* once more with the arrays the first call was given, as that call left   *)
(* them; jacobi with the same or with another initial guess.               *)
(***************************************************************************)
\* the second call: the parameters are bound to the caller's arrays again
\* (lines 708 and 50), g is the x0 the caller passes this time
CallAgain ==
    /\ pc = "done"
    /\ calls = 1
    /\ \E g \in (IF fn = "jacobi" THEN VecOver(n, Bits) ELSE {x0arg}) :
           /\ x0arg' = g
           /\ x0' = g
    /\ first' = [ret |-> ret, matrix |-> matrix0, vector |-> vector0,
                 x0 |-> x0arg, iterates |-> iterates]
    /\ calls' = calls + 1
    /\ matrix0' = matrix
    /\ vector0' = vector
    /\ pc' = Entry(fn)
    /\ i' = 0
    /\ max_row' = 0
    /\ x' = NoArray
    /\ L' = NoArray
    /\ ret' = Running
    /\ perm' = [k \in Idx(n) |-> k]
    /\ zpiv' = FALSE
    /\ zdiv' = FALSE
    /\ negroot' = FALSE
    /\ inexact' = FALSE
    /\ count' = NoSteps
    /\ iterates' = <<>>
    /\ UNCHANGED <<fn, n, matrix, vector, tol, maxiter, w, arith>>

InitAgain ==
    \E M \in MatOver(2, Small) \cup {DivergingA} : \E v, g \in VecOver(2, Bits) :
        \E mi \in 0 .. MaxSweeps :
            Called("jacobi", 2, M, v, g, DefaultTol, mi)

NextAgain ==
    \/ JacobiEnter
    \/ JacobiSweep
    \/ JacobiReturn
    \/ CallAgain

SpecAgain == InitAgain /\ [][NextAgain]_vars

\* the entries of the systems on which the rounding is modelled: the
\* quotient 1/3 has no finite decimal expansion
Thirds == {0, 1, 3}

\* in exact arithmetic the 2 x 2 systems of SolveInputs and the 3 x 3 systems
\* with entries 0 and 1, with rounding the 2 x 2 systems with entries from
\* Thirds
InitGaussAgain ==
    \/ \E M \in MatOver(2, -MaxAbs .. MaxAbs) : \E v \in VecOver(2, Bits) :
           Called("gauss_partial_pivoting", 2, M, v, NoArray, Zero, 0)
    \/ \E M \in MatOver(3, Bits) : \E v \in Rhs3 :
           Called("gauss_partial_pivoting", 3, M, v, NoArray, Zero, 0)
    \/ \E M \in MatOver(2, Thirds) : \E v \in VecOver(2, Thirds) :
           CalledIn("float", "gauss_partial_pivoting", 2, M, v, NoArray,
                    NoParam, Zero, 0)

NextGaussAgain ==
    \/ GaussPivot
    \/ GaussEliminate
    \/ GaussBackSubstitute
    \/ GaussReturn
    \/ CallAgain

SpecGaussAgain == InitGaussAgain /\ [][NextGaussAgain]_vars

(***************************************************************************)
(* The four solvers without a body, on the small 2 x 2 systems and on the  *)
(* tridiagonal system; successive_over_relaxation with w = 1 and with an   *)
(* under- and an over-relaxation.                                          *)
(***************************************************************************)
Relaxations == {<<1, 2>>, One, <<3, 2>>}

\* the call of f with the system A x = b of m equations
StubCalled(f, m, A, b) ==
    \E g \in VecOver(m, Bits) :
        \E omega \in (IF f = "successive_over_relaxation" THEN Relaxations
                      ELSE {NoParam}) :
            CalledWith(f, m, A, b, g, omega, DefaultTol, DefaultMaxIter)

InitStubs ==
    \E f \in Placeholders :
        \/ \E M \in MatOver(2, Small) \cup {DivergingA} :
               \E v \in VecOver(2, Bits) : StubCalled(f, 2, M, v)
        \/ StubCalled(f, 3, TridiagA, TridiagB)

NextStubs ==
    \/ PlaceholderReturn

SpecStubs == InitStubs /\ [][NextStubs]_vars

(***************************************************************************)
(* Calls with arrays whose shapes do not fit, n = 2: a vector that is      *)
(* longer than the matrix has rows (gauss_partial_pivoting), a matrix with *)
(* more columns than rows (doolittle, choleski), a matrix with more rows   *)
(* than b has entries (jacobi, gauss_seidel).  These are the misfits with  *)
(* which every index the functions compute lies inside the arrays and the  *)
(* two arguments of every np.dot have the same length.                     *)
(***************************************************************************)
\* the matrices with r rows and c columns and entries from S
Rect(r, c, S) == [Idx(r) -> VecOver(c, S)]

InitShape ==
    \/ \E M \in MatOver(2, Small) : \E v \in VecOver(3, Bits) :
           Called("gauss_partial_pivoting", 2, M, v, NoArray, Zero, 0)
    \/ \E f \in {"doolittle", "choleski"} : \E M \in Rect(2, 3, Small) :
           Called(f, 2, M, NoArray, NoArray, Zero, 0)
    \/ \E f \in {"jacobi", "gauss_seidel"} : \E M \in Rect(3, 2, Small) :
           \E v \in VecOver(2, Bits) :
               Called(f, 2, M, v, Zeros(2), DefaultTol, MaxSweeps)

NextShape ==
    \/ GaussPivot
    \/ GaussEliminate
    \/ GaussBackSubstitute
    \/ GaussReturn
    \/ DoolittleEnter
    \/ DoolittleRowPass
    \/ DoolittleColPass
    \/ DoolittleReturn
    \/ CholeskiEnter
    \/ CholeskiRow
    \/ CholeskiReturn
    \/ JacobiEnter
    \/ JacobiSweep
    \/ JacobiReturn
    \/ PlaceholderReturn

SpecShape == InitShape /\ [][NextShape]_vars

(***************************************************************************)
(* Notions the properties are stated with.                                 *)
(***************************************************************************)
\* the determinant of an integer-valued m x m matrix, by expansion along row 0
RECURSIVE Det(_, _)
Det(M, m) ==
    IF m = 1 THEN M[0][0][1]
    ELSE LET Minor(c) ==
                 [r \in Idx(m - 1) |->
                     [k \in Idx(m - 1) |-> M[r + 1][IF k < c THEN k ELSE k + 1]]]
             RECURSIVE Expand(_)
             Expand(c) ==
                 IF c >= m THEN 0
                 ELSE (IF c % 2 = 0 THEN 1 ELSE -1) * M[0][c][1] * Det(Minor(c), m - 1)
                      + Expand(c + 1)
         IN  Expand(0)

Invertible(M, m) == Det(M, m) # 0

\* the product of row r of M with the vector y
RowTimes(M, y, m, r) == DotFrom(M[r], y, m, 0)

AllFinite(y, m) == \A k \in Idx(m) : IsFinite(y[k])

Identity(m) == [k \in Idx(m) |-> k]

\* the largest magnitude of a row
RECURSIVE RowScaleFrom(_, _, _)
RowScaleFrom(row, m, k) ==
    IF k >= m THEN Zero
    ELSE LET rest == RowScaleFrom(row, m, k + 1)
         IN  IF RGt(RAbs(row[k]), rest) THEN RAbs(row[k]) ELSE rest

RowScale(row, m) == RowScaleFrom(row, m, 0)

\* scaled partial pivoting: the lowest row j >= c that maximizes
\* |M[j][c]| / s[j], s[j] being the scale of the row at position j
RECURSIVE ScaledRowFrom(_, _, _, _, _, _)
ScaledRowFrom(M, s, m, c, j, cur) ==
    IF j >= m THEN cur
    ELSE ScaledRowFrom(M, s, m, c, j + 1,
             IF RGt(RDiv(RAbs(M[j][c]), s[j]), RDiv(RAbs(M[cur][c]), s[cur]))
             THEN j ELSE cur)

ScaledPivotRow(M, s, m, c) == ScaledRowFrom(M, s, m, c, c + 1, c)

\* what the working arrays held just before the swap of the current column
BeforeSwap(a) == Swap(a, i, max_row)

InPartial == fn = "gauss_partial_pivoting"

InScaled == fn = "gauss_scaled_pivoting"

(***************************************************************************)
(* Properties of the elimination solvers (SpecGauss).                      *)
(***************************************************************************)
\* C1: for every invertible A and every b, gauss_partial_pivoting(A, b)
\* returns a vector x with A.x = b, A and b being the system as passed in.
C1_GaussSolves ==
    (InPartial /\ pc = "done" /\ Invertible(matrix0, n)) =>
        /\ ret.kind = "ndarray"
        /\ AllFinite(ret.val, n)
        /\ \A r \in Idx(n) : RowTimes(matrix0, ret.val, n, r) = vector0[r]

\* C1 witness: a 3 x 3 invertible system was solved after a row exchange and
\* its solution is not integral.
C1_Witness ==
    /\ InPartial /\ pc = "done" /\ n = 3 /\ Invertible(matrix0, n)
    /\ perm # Identity(n)
    /\ \E k \in Idx(n) : ret.val[k][2] > 1

\* C3: when the pivot search of some column finds only zeros, the call ends
\* at once in SingularMatrixError: nothing is divided by that pivot and no
\* vector is returned.
C3_ZeroPivotAborts ==
    (InPartial /\ zpiv) =>
        /\ pc = "done"
        /\ ret.kind = "SingularMatrixError"
        /\ ~zdiv

\* C5: when gauss_partial_pivoting or gauss_scaled_pivoting has returned,
\* the caller's matrix and vector hold what they held before the call.
C5_CallerArraysUnchanged ==
    pc = "done" => (matrix = matrix0 /\ vector = vector0)

\* C6: after the swap of pivot column i, |A[i][i]| >= |A[j][i]| for every
\* j > i, and the row swapped in is the lowest one of maximal magnitude: the
\* rows it passed over (positions i+1..max_row after the swap, the old row i
\* sitting at max_row) are strictly smaller.
C6_PivotIsFirstMaximum ==
    (InPartial /\ pc = "elim") =>
        /\ \A j \in (i + 1) .. (n - 1) :
               RGe(RAbs(matrix[i][i]), RAbs(matrix[j][i]))
        /\ \A j \in (i + 1) .. max_row :
               RGt(RAbs(matrix[i][i]), RAbs(matrix[j][i]))

\* C7: gauss_scaled_pivoting swaps into position i the row chosen by scaled
\* pivoting, the scale of a row being its largest magnitude in the input.
C7_ScaledPivotRule ==
    (InScaled /\ pc = "elim"
        /\ \A k \in Idx(n) : ~IsZero(RowScale(matrix0[k], n))) =>
        LET p == BeforeSwap(perm)
            s == [k \in Idx(n) |-> RowScale(matrix0[p[k]], n)]
        IN  max_row = ScaledPivotRow(BeforeSwap(matrix), s, n, i)

(***************************************************************************)
(* Properties of the factorizer (SpecLU).                                  *)
(***************************************************************************)
InDoolittle == fn = "doolittle"

\* the leading k x k block of M
Leading(M, k) == [r \in Idx(k) |-> [c \in Idx(k) |-> M[r][c]]]

\* every leading block is invertible: elimination meets no zero pivot and
\* needs no row exchange
NoExchangeNeeded(M, m) == \A k \in 1 .. m : Invertible(Leading(M, k), k)

UnitDiagonal(l, m) == \A r \in Idx(m) : l[r][r] = One

ZeroAbove(l, m) == \A r \in Idx(m) : \A c \in (r + 1) .. (m - 1) : l[r][c] = Zero

ZeroBelow(u, m) == \A r \in Idx(m) : \A c \in 0 .. (r - 1) : u[r][c] = Zero

\* sum of l[r][k] * u[k][c] over k < m
RECURSIVE ProdSum(_, _, _, _, _)
ProdSum(l, u, r, c, m) ==
    IF m = 0 THEN Zero
    ELSE RAdd(ProdSum(l, u, r, c, m - 1), RMul(l[r][m - 1], u[m - 1][c]))

\* rows 0..k-1 of the matrix U with l.U = M, for a unit lower triangular l:
\* U[r] = M[r] - sum over t < r of l[r][t] * U[t]
RECURSIVE UpperRows(_, _, _, _)
UpperRows(l, M, m, k) ==
    IF k = 0 THEN ZerosMat(m)
    ELSE LET u == UpperRows(l, M, m, k - 1)
         IN  [u EXCEPT ![k - 1] =
                 [c \in Idx(m) |-> RSub(M[k - 1][c], ProdSum(l, u, k - 1, c, k - 1))]]

UpperFactor(l, M, m) == UpperRows(l, M, m, m)

\* C8: for an invertible A that needs no row exchange, doolittle(A) is the
\* unit lower triangular factor of A = L.U: the matrix U that completes it
\* to L.U = A is upper triangular.
C8_DoolittleFactorsA ==
    (InDoolittle /\ pc = "done" /\ NoExchangeNeeded(matrix0, n)) =>
        /\ ret.kind = "ndarray"
        /\ UnitDiagonal(ret.val, n) /\ ZeroAbove(ret.val, n)
        /\ LET u == UpperFactor(ret.val, matrix0, n)
           IN  /\ \A r, c \in Idx(n) : ProdSum(ret.val, u, r, c, n) = matrix0[r][c]
               /\ ZeroBelow(u, n)

\* C9: when doolittle has divided by no zero, the matrix it returns has a
\* diagonal of ones and only zeros above it.
C9_DoolittleUnitLower ==
    (InDoolittle /\ pc = "done" /\ ~zdiv) =>
        /\ ret.kind = "ndarray"
        /\ UnitDiagonal(ret.val, n)
        /\ ZeroAbove(ret.val, n)

\* C9 witness: a 3 x 3 matrix was factorized without a zero divisor, into a
\* matrix with entries other than 0 and 1 below its diagonal.
C9_Witness ==
    /\ InDoolittle /\ pc = "done" /\ ~zdiv /\ n = 3
    /\ \A r \in Idx(n) : matrix0[r][r] # One
    /\ \E r \in Idx(n) : \E c \in 0 .. (r - 1) : ret.val[r][c] \notin {Zero, One}

\* C10: when the diagonal entry doolittle is about to divide by is zero, the
\* call ends in SingularMatrixError: it divides by no zero and returns no
\* matrix.
C10_ZeroPivotFails ==
    (InDoolittle /\ zpiv) =>
        /\ pc = "done"
        /\ ret.kind = "SingularMatrixError"
        /\ ~zdiv

(***************************************************************************)
(* Properties of the two scenarios (SpecScenario).                         *)
(***************************************************************************)
\* |a - b| <= 1/e for finite a and b
Within(a, b, e) ==
    LET d == RAbs(RSub(a, b))
    IN  IsFinite(d) /\ d[1] <= d[2] \div e

\* the vector the specification gives as the solution of the tridiagonal system
TridiagExpected ==
    [k \in Idx(3) |-> <<<<44667, 10000>>, <<28667, 10000>>, <<32167, 10000>>>>[k + 1]]

OnTridiag == matrix0 = TridiagA /\ vector0 = TridiagB

OnSingular == matrix0 = SingularA /\ vector0 = SingularB

\* C2: on the tridiagonal system, gauss_partial_pivoting, jacobi with
\* tol = 1e-6 and conjugate_gradient each return a vector whose components
\* are within 1e-4 of [4.4667, 2.8667, 3.2167].
C2_TridiagSolution ==
    (OnTridiag /\ pc = "done"
        /\ fn \in {"gauss_partial_pivoting", "jacobi", "conjugate_gradient"}) =>
        /\ ret.kind = "ndarray"
        /\ \A k \in Idx(3) : Within(ret.val[k], TridiagExpected[k], 10000)

\* C4: on the singular system every solver ends in SingularMatrixError and
\* returns no vector.
C4_SingularSystemFails ==
    (OnSingular /\ pc = "done") => ret.kind = "SingularMatrixError"

(***************************************************************************)
(* Properties of the four factorizers (SpecFactor).                        *)
(***************************************************************************)
InCholeski == fn = "choleski"

Symmetric(M, m) == \A r, c \in Idx(m) : M[r][c] = M[c][r]

\* symmetric with positive leading minors (Sylvester's criterion)
PositiveDefinite(M, m) ==
    /\ Symmetric(M, m)
    /\ \A k \in 1 .. m : Det(Leading(M, k), k) > 0

\* 1 / RootTolInv: four units of the last digit choleski keeps
RootTolInv == RootPrec \div 4

\* entry (r, c) of l . l^T
Gram(l, m, r, c) == PairSum(l, r, c, m)

\* C11: for every symmetric positive-definite A, choleski(A) returns a lower
\* triangular L with L.L^T = A: exactly when no root or quotient had to be
\* rounded, and to within the rounding of the stored entries otherwise.
C11_CholeskiFactorsA ==
    (InCholeski /\ pc = "done" /\ PositiveDefinite(matrix0, n)) =>
        /\ ret.kind = "ndarray"
        /\ ZeroAbove(ret.val, n)
        /\ \A r, c \in Idx(n) :
               /\ Within(Gram(ret.val, n, r, c), matrix0[r][c], RootTolInv)
               /\ ~inexact => Gram(ret.val, n, r, c) = matrix0[r][c]

\* C11 witness: a 3 x 3 positive-definite matrix with irrational roots was
\* factorized into a matrix with nonzero entries below its diagonal.
C11_Witness ==
    /\ InCholeski /\ pc = "done" /\ n = 3 /\ PositiveDefinite(matrix0, n)
    /\ inexact
    /\ ~IsZero(ret.val[1][0]) /\ ~IsZero(ret.val[2][1])

\* C12: when choleski takes the root of a negative number or divides by a
\* zero diagonal entry, the call ends there in NonPositiveDefiniteError and
\* returns no matrix.
C12_NotPositiveDefiniteFails ==
    (InCholeski /\ (negroot \/ zdiv)) =>
        /\ pc = "done"
        /\ ret.kind = "NonPositiveDefiniteError"

InCrout == fn = "crout"

\* the Crout recurrence on M, steps 0..k-1: column c of the lower factor l,
\* then row c of the unit upper factor u
RECURSIVE CroutUpTo(_, _, _)
CroutUpTo(M, m, k) ==
    IF k = 0 THEN [l |-> ZerosMat(m), u |-> ZerosMat(m)]
    ELSE LET st == CroutUpTo(M, m, k - 1)
             c  == k - 1
             l2 == [r \in Idx(m) |-> [d \in Idx(m) |->
                       IF d = c /\ r >= c
                       THEN RSub(M[r][c], ProdSum(st.l, st.u, r, c, c))
                       ELSE st.l[r][d]]]
             u2 == [r \in Idx(m) |-> [d \in Idx(m) |->
                       IF r = c /\ d = c THEN One
                       ELSE IF r = c /\ d > c
                       THEN RDiv(RSub(M[c][d], ProdSum(l2, st.u, c, d, c)),
                                 l2[c][c])
                       ELSE st.u[r][d]]]
         IN  [l |-> l2, u |-> u2]

\* the unit upper triangular factor U of M = L.U
CroutUpper(M, m) == CroutUpTo(M, m, m).u

\* C13: for every A with nonzero pivots, crout(A) is the unit upper
\* triangular factor U that the Crout recurrence gives for A.
C13_CroutIsUpperFactor ==
    (InCrout /\ pc = "done" /\ NoExchangeNeeded(matrix0, n)) =>
        /\ ret.kind = "ndarray"
        /\ ret.val = CroutUpper(matrix0, n)

\* C14: doolittle, choleski, crout and ldl_factorization never write to the
\* caller's matrix, at no point of a call, and what they return is the array
\* L that the call created with np.zeros (crout: its transpose).
C14_FactorizersKeepInput ==
    fn \in Factorizers =>
        /\ matrix = matrix0
        /\ pc = "done" =>
               /\ ret.kind = "ndarray"
               /\ ret.val = IF InCrout THEN Transpose(L) ELSE L

\* C14 witness: crout has returned for a 3 x 3 matrix that is not symmetric
\* and differs from the result.
C14_Witness ==
    /\ InCrout /\ pc = "done" /\ n = 3
    /\ ~Symmetric(matrix0, n)
    /\ ret.val # matrix0
    /\ ~zdiv

(***************************************************************************)
(* Properties of jacobi and of the termination of the solvers              *)
(* (SpecSolve, FairSolve, SpecScenario).                                   *)
(***************************************************************************)
InJacobi == fn = "jacobi"

\* the Jacobi step: every component from the iterate y of the previous sweep
JacobiStep(A, b, y, m) == [j \in Idx(m) |-> Component(A, b, y, m, j)]

\* C15: every sweep of jacobi replaces x by the Jacobi step of x: each new
\* component is computed from the previous sweep's iterate only.
C15_SweepUsesOldIterate ==
    [][(InJacobi /\ pc = "sweep") => x' = JacobiStep(matrix, vector, x, n)]_vars

\* |a - b| <= t for finite a and b
AbsClose(a, b, t) ==
    LET d == RAbs(RSub(a, b))
    IN  IsFinite(d) /\ d[1] <= (t[1] * d[2]) \div t[2]

\* C16: a sweep of jacobi is the last one exactly when every component of
\* the new iterate is within tol of the iterate before the sweep.
C16_StopsOnAbsoluteTest ==
    [][(InJacobi /\ pc = "sweep") =>
          (pc' = "break" <=> \A k \in Idx(n) : AbsClose(x'[k], x[k], tol))]_vars

\* jacobi made its maxiter > 0 passes and none of them ended in break
Exhausted == InJacobi /\ maxiter > 0 /\ i >= maxiter

\* C17: when jacobi has used up maxiter sweeps without passing the test, it
\* returns the last iterate tagged as not converged.
C17_ExhaustionIsTagged ==
    (pc = "done" /\ Exhausted) =>
        /\ "val" \in DOMAIN ret /\ ret.val = x
        /\ "status" \in DOMAIN ret /\ ret.status = "DidNotConverge"

ZeroOnDiagonal(M, m) == \E j \in Idx(m) : IsZero(M[j][j])

\* C18: on a matrix with a zero on its diagonal jacobi divides by no zero
\* and ends in ZeroPivotError, returning no iterate.
C18_ZeroDiagonalFails ==
    (InJacobi /\ ZeroOnDiagonal(matrix0, n)) =>
        /\ ~zdiv
        /\ pc = "done" => ret.kind = "ZeroPivotError"

\* the number of steps a call may make, and has made when it returns
StepBounds ==
    /\ InJacobi => count["sweep"] <= maxiter
    /\ InPartial => /\ count["pivot"] <= n /\ count["back"] <= n
                    /\ pc = "done" => count["pivot"] = n /\ count["back"] = n

\* C19: every call of jacobi returns after at most maxiter sweeps, whatever
\* the iterates do, and every call of gauss_partial_pivoting returns after
\* exactly n pivot steps and n back-substitution steps.
C19_SolversTerminate == [](StepBounds) /\ <>(pc = "done")

\* C19 witness: jacobi has returned from a diverging iteration after all
\* MaxSweeps sweeps of its budget.
C19_Witness ==
    /\ InJacobi /\ pc = "done" /\ matrix0 = DivergingA
    /\ maxiter = MaxSweeps /\ count["sweep"] = MaxSweeps
    /\ \E k \in Idx(n) : RGt(RAbs(ret.val[k]), FromInt(10))

\* |M[r][r]| > sum of |M[r][c]|, c # r, for every row of an integer matrix
RECURSIVE OffDiagonal(_, _, _)
OffDiagonal(row, r, m) ==
    IF m = 0 THEN 0
    ELSE OffDiagonal(row, r, m - 1) + (IF m - 1 = r THEN 0 ELSE Abs(row[m - 1][1]))

DiagonallyDominant(M, m) ==
    \A r \in Idx(m) : Abs(M[r][r][1]) > OffDiagonal(M[r], r, m)

\* the solution of an invertible integer system, by Cramer's rule
Solution(M, v, m) ==
    [k \in Idx(m) |->
        Norm(Det([r \in Idx(m) |-> [c \in Idx(m) |->
                     IF c = k THEN v[r] ELSE M[r][c]]], m),
             Det(M, m))]

\* C20: on a strictly diagonally dominant system jacobi and gauss_seidel
\* each return a vector whose components are within tol (and one unit of
\* the last digit kept) of the solution of the system.
C20_IterativeSolversAgree ==
    (pc = "done" /\ fn \in {"jacobi", "gauss_seidel"}
        /\ DiagonallyDominant(matrix0, n)) =>
        /\ ret.kind = "ndarray"
        /\ \A k \in Idx(n) :
               AbsClose(ret.val[k], Solution(matrix0, vector0, n)[k],
                        RAdd(tol, <<1, Prec>>))

(***************************************************************************)
(* successive_over_relaxation and gauss_seidel                             *)
(***************************************************************************)
InSor == fn = "successive_over_relaxation"

\* one Gauss-Seidel sweep on the iterate y, components from..m-1: component
\* j from the components 0..j-1 of this sweep and j+1..m-1 of the last one
RECURSIVE SeidelFrom(_, _, _, _, _)
SeidelFrom(A, b, y, m, from) ==
    IF from >= m THEN y
    ELSE LET s == RSub(DotFrom(A[from], y, m, 0), RMul(A[from][from], y[from]))
         IN  SeidelFrom(A, b,
                        [y EXCEPT ![from] = RDiv(RSub(b[from], s), A[from][from])],
                        m, from + 1)

InConjugate == fn = "conjugate_gradient"

\* the square of the norm of the residual b - A y, components k..m-1
RECURSIVE ResidualFrom(_, _, _, _, _)
ResidualFrom(A, b, y, m, k) ==
    IF k >= m THEN Zero
    ELSE LET r == RSub(b[k], RowTimes(A, y, m, k))
         IN  RAdd(RMul(r, r), ResidualFrom(A, b, y, m, k + 1))

\* C22: on a symmetric positive-definite n x n matrix conjugate_gradient
\* returns, after at most n iterations, a solution estimate whose residual
\* b - A x has a norm below tol.
C22_ConjugateGradientConverges ==
    (InConjugate /\ pc = "done" /\ PositiveDefinite(matrix0, n)) =>
        /\ ret.kind = "ndarray"
        /\ Len(iterates) <= n
        /\ RGt(RMul(tol, tol), ResidualFrom(matrix0, vector0, ret.val, n, 0))

(***************************************************************************)
(* Arrays whose shapes do not fit                                          *)
(***************************************************************************)
\* as many columns in every row as there are rows
Square(M) == \A r \in DOMAIN M : DOMAIN M[r] = DOMAIN M

\* the matrix of the call is not square, or the call has a vector whose
\* length is not the number of rows of the matrix
Mismatched ==
    \/ ~Square(matrix0)
    \/ vector0 # NoArray /\ DOMAIN vector0 # DOMAIN matrix0

\* nothing of the call has happened but its entry or its return
NoWorkDone ==
    /\ matrix = matrix0
    /\ vector = vector0
    /\ x = NoArray
    /\ L = NoArray
    /\ count = NoSteps

\* C23: a call whose matrix is not square, or whose vector has another
\* length than the matrix has rows, ends at its entry in
\* DimensionMismatchError: the call computes nothing and modifies nothing
\* before it reports, and it returns nothing else.
C23_MismatchReportedAtEntry ==
    Mismatched =>
        \/ pc = Entry(fn) /\ ret = Running /\ NoWorkDone
        \/ pc = "done" /\ ret.kind = "DimensionMismatchError" /\ NoWorkDone

(***************************************************************************)
(* jacobi and the caller's arrays                                          *)
(***************************************************************************)
\* the caller has called a second time, with the x0 of its first call
SameCallAgain == calls = 2 /\ x0arg = first.x0

\* C24: while jacobi runs, no step of it changes the caller's A, b or x0,
\* so after the call they hold the values they held before; and a second
\* call with the same arguments returns what the first call returned.
C24_JacobiKeepsArguments ==
    /\ [][(InJacobi /\ calls' = calls) =>
              (matrix' = matrix /\ vector' = vector /\ x0arg' = x0arg)]_vars
    /\ [](InJacobi /\ SameCallAgain =>
              /\ matrix0 = first.matrix
              /\ vector0 = first.vector
              /\ pc = "done" => ret = first.ret)

\* C24 witness: a second call with the same arguments has returned, after
\* at least two passes in which x0 was rebound and x was written.
C24_Witness ==
    /\ InJacobi /\ SameCallAgain /\ pc = "done"
    /\ Len(iterates) >= 2
    /\ ret.val # Zeros(n)
    /\ ret.val # x0arg

(***************************************************************************)
(* gauss_partial_pivoting: the shape of the working matrix                 *)
(***************************************************************************)
\* the number of pivot steps (search, swap, elimination) that are complete
StepsDone ==
    IF pc = "pivot" THEN i ELSE IF pc = "elim" THEN i ELSE n

\* a pivot that is a number and not zero
ProperPivot(a) == IsFinite(a) /\ ~IsZero(a)

\* every entry below the diagonal in columns 0..c is exactly zero
ZeroBelowUpTo(M, m, c) ==
    \A k \in 0 .. c : \A r \in (k + 1) .. (m - 1) : M[r][k] = Zero

\* C25: in gauss_partial_pivoting, when pivot step c is the last one that
\* is complete and its pivot was a nonzero number, every entry below the
\* diagonal in columns 0..c is exactly zero; so after the last step the
\* matrix is upper triangular when the back substitution starts.
C25_EliminationTriangularizes ==
    (InPartial /\ StepsDone >= 1) =>
        LET c == StepsDone - 1
        IN  ProperPivot(matrix[c][c]) => ZeroBelowUpTo(matrix, n, c)

\* C25 witness: the elimination of a 3 x 3 system has ended with three
\* nonzero pivots, after a row exchange and with rows that were changed.
C25_Witness ==
    /\ InPartial /\ pc = "back" /\ n = 3 /\ i = n - 1
    /\ \A c \in Idx(n) : ProperPivot(matrix[c][c])
    /\ perm # Identity(n)
    /\ \A r \in 1 .. 2 : matrix[r] # matrix0[perm[r]]
    /\ ZeroBelowUpTo(matrix, n, n - 1)

(***************************************************************************)
(* gauss_partial_pivoting: what a step writes                              *)
(***************************************************************************)
\* the array a with the values at the indices r and s exchanged
Exchanged(a, r, s) ==
    [k \in DOMAIN a |-> IF k = r THEN a[s] ELSE IF k = s THEN a[r] ELSE a[k]]

\* C26: the search, the swap and the elimination of pivot step i leave rows
\* 0..i-1 of the matrix and entries 0..i-1 of the vector as they are; the
\* swap exchanges row i with one row r >= i in the matrix and entry i with
\* entry r, the same r, in the vector and changes nothing else; the back
\* substitution changes neither the matrix nor the vector.
C26_StepWritesFromRowI ==
    [][InPartial =>
          /\ pc \in {"pivot", "elim"} =>
                 \A r \in 0 .. (i - 1) :
                     matrix'[r] = matrix[r] /\ vector'[r] = vector[r]
          /\ pc = "pivot" =>
                 \E r \in i .. (n - 1) :
                     /\ matrix' = Exchanged(matrix, i, r)
                     /\ vector' = Exchanged(vector, i, r)
          /\ pc = "back" => (matrix' = matrix /\ vector' = vector)]_vars

\* C26 witness: pivot step 1 of a 3 x 3 system has exchanged rows 1 and 2,
\* which differ in the matrix and in the vector, and step 0 had changed the
\* rows below row 0.
C26_Witness ==
    /\ InPartial /\ pc = "elim" /\ n = 3 /\ i = 1 /\ max_row = 2
    /\ matrix[1] # matrix[2]
    /\ vector[1] # vector[2]
    /\ matrix[1] # matrix0[perm[1]]

(***************************************************************************)
(* The functions without a body                                            *)
(***************************************************************************)
InPlaceholder == fn \in Placeholders

\* C27: gauss_seidel, successive_over_relaxation, iterative_refinement and
\* conjugate_gradient do nothing but return None: a call of one of them is
\* at its entry or has returned None, whatever the arguments are; it has
\* made no sweep and produced no iterate, and A, b and x0 are as the caller
\* passed them.
C27_PlaceholdersReturnNone ==
    InPlaceholder =>
        /\ \/ pc = "call" /\ ret = Running
           \/ pc = "done" /\ ret = [kind |-> "None"]
        /\ count = NoSteps
        /\ iterates = <<>>
        /\ x = NoArray
        /\ matrix = matrix0 /\ vector = vector0 /\ x0 = x0arg

\* C27 witness: successive_over_relaxation has returned from a call with
\* the tridiagonal system and an over-relaxation, on which a solver with a
\* body would have made sweeps.
C27_Witness ==
    /\ fn = "successive_over_relaxation" /\ pc = "done"
    /\ OnTridiag /\ w = <<3, 2>> /\ maxiter = DefaultMaxIter
    /\ ret.kind = "None"

(***************************************************************************)
(* ldl_factorization                                                       *)
(***************************************************************************)
InLdl == fn = "ldl_factorization"

\* the diagonal D of A = L D Lt for a unit lower triangular L:
\* d[k] = A[k][k] - sum over j < k of L[k][j]^2 d[j]; LdlSum is the sum over
\* j < m of L[r][j] d[j] L[c][j]
RECURSIVE LdlDiag(_, _, _), LdlSum(_, _, _, _, _)
LdlDiag(l, M, k) == RSub(M[k][k], LdlSum(l, M, k, k, k))

LdlSum(l, M, r, c, m) ==
    IF m = 0 THEN Zero
    ELSE RAdd(LdlSum(l, M, r, c, m - 1),
              RMul(RMul(l[r][m - 1], LdlDiag(l, M, m - 1)), l[c][m - 1]))

\* C28: for a symmetric A whose pivots are nonzero (no leading minor is
\* zero), ldl_factorization(A) returns a lower triangular L with diagonal
\* exactly 1 such that A = L D Lt for a diagonal D.
C28_LdlReturnsUnitFactor ==
    (InLdl /\ pc = "done" /\ Symmetric(matrix0, n)
        /\ NoExchangeNeeded(matrix0, n)) =>
        /\ ret.kind = "ndarray"
        /\ UnitDiagonal(ret.val, n)
        /\ ZeroAbove(ret.val, n)
        /\ \A r, c \in Idx(n) :
               matrix0[r][c] = LdlSum(ret.val, matrix0, r, c, n)

(***************************************************************************)
(* jacobi and the initial guess                                            *)
(***************************************************************************)
\* the caller has called jacobi a second time, with another x0
OtherGuessAgain == InJacobi /\ calls = 2 /\ x0arg # first.x0

Shorter(s, t) == IF Len(s) <= Len(t) THEN Len(s) ELSE Len(t)

SolvedAgain == InPartial /\ calls = 2 /\ Invertible(first.matrix, n)

\* the second call has exchanged no rows, the arrays are as it found them,
\* and when it has returned, it has returned what the first call returned
SecondCallIdle ==
    /\ perm = Identity(n)
    /\ matrix = matrix0
    /\ vector = vector0
    /\ pc = "done" => ret = first.ret

=============================================================================
